---- MODULE Spec2Model ----
(***************************************************************************)
(* Model of src/src/features/common/ai/providers/mastra.js: the module     *)
(* loader, the Teaching Assistant agent cache, createMastraStream and the  *)
(* paced stream built by createStreamFromMastraResponse.                   *)
(*                                                                         *)
(* JavaScript runs the code of one async function without interruption    *)
(* from one await to the next, so every action below is one such segment. *)
(*                                                                         *)
(* Spec     overlapping initializeTeachingAssistant calls                  *)
(* SpecGen  createMastraStream calls next to initializeTeachingAssistant   *)
(* SpecEmit one stream of createStreamFromMastraResponse, its timer and    *)
(*          its consumer; SpecEmitFair adds that timers fire and the       *)
(*          consumer keeps reading                                         *)
(* SpecChat streamChat calls of sessions of createStreamingLLM             *)
(* SpecValidate  overlapping MastraProvider.validateApiKey calls           *)
(***************************************************************************)
EXTENDS Integers, Sequences, FiniteSets, TLC

\* ---------------------------------------------------------------- bounds
NumProcs == 2          \* concurrent callers of initializeTeachingAssistant
MaxCalls == 2          \* initializeTeachingAssistant calls in one behaviour
MaxStreamCalls == 1    \* createMastraStream calls in one behaviour
GenCallers == 1        \* callers of initializeTeachingAssistant next to createMastraStream
MaxValidations == 2    \* MastraProvider.validateApiKey calls in one behaviour

Procs == 1..NumProcs
GenProcs == 1..GenCallers
ValProcs == 1..MaxValidations

\* ----------------------------------------------------------- value domains
NoKey == "null"                       \* JavaScript null credential
Keys == {"A", "B"}                    \* the credentials callers pass (non-empty, spec 3)
ToolSets == {{"course"}}              \* what a successful getTools resolves to
\* the ways the getTools promise settles: resolved with a tool set, or rejected
GetToolsOutcomes == {[ok |-> TRUE, tools |-> t] : t \in ToolSets} \cup {[ok |-> FALSE, tools |-> {}]}

NoAgent == [id |-> 0, key |-> NoKey, tools |-> {}, memory |-> 0]

VARIABLES
    teachingAssistantAgent,  \* line 4: the cached agent, NoAgent for null
    mastraModules,           \* line 5: 0 for null, else the id of the module-set object
    mcpClient,               \* line 6: 0 for null, else the id of the MCPClient
    currentApiKey,           \* line 7
    envApiKey,               \* process.env.OPENAI_API_KEY (line 65)
    ctr,                     \* how many loads, clients, getTools calls, memories, agents so far
    pc,                      \* where each initializeTeachingAssistant call stands
    apiKey,                  \* the argument of each call
    ret,                     \* the handle a call returned
    failStep,                \* the step whose error a failed call rethrew
    mods,                    \* the module set loadMastraModules gave this call, 0 for none
    toolsRejected,           \* the getTools call of this call was rejected (line 88)
    solo,                    \* no other call was in flight during this call
    atStart,                 \* the cache as this call found it
    lastDone,                \* the call that returned last
    calls,                   \* number of initializeTeachingAssistant calls so far
    spc,                     \* where the createMastraStream call stands
    messages,                \* its messages argument
    sres,                    \* its outcome
    genCount,                \* number of agent.generate invocations
    genKey,                  \* the apiKey option of the last generate invocation
    genAgent,                \* the agent the last generate invocation ran on
    msgRead,                 \* the call got as far as reading its messages (line 229)
    streamCalls,             \* number of createMastraStream calls so far
    streamCount,             \* number of streams createStreamFromMastraResponse built
    response,                \* the generation result handed to createStreamFromMastraResponse
    em,                      \* the stream built last and the closure of its sendChunk
    valPc,                   \* where each validateApiKey call stands
    valApiKey,               \* the argument of each validateApiKey call
    valResult,               \* what the call returned
    fetched,                 \* the bearer credentials of the requests the call sent
    chat                     \* the streamChat call of each session of createStreamingLLM

lifeVars == <<teachingAssistantAgent, mastraModules, mcpClient, currentApiKey, envApiKey,
              ctr, pc, apiKey, ret, failStep, mods, toolsRejected, solo, atStart, lastDone, calls>>
cacheVars == <<teachingAssistantAgent, mastraModules, mcpClient, currentApiKey, envApiKey, ctr>>
callVars == <<spc, messages, sres, genCount, genKey, genAgent, msgRead, streamCalls>>
genVars == <<callVars, streamCount, response, em>>
valVars == <<valPc, valApiKey, valResult, fetched>>
facadeVars == <<valVars, chat>>
vars == <<lifeVars, genVars, facadeVars>>

\* ------------------------------------------------ createStreamFromMastraResponse

ChunkSize == 50

\* JavaScript values of the fields the code tests for truthiness
Undefined == [t |-> "undefined", v |-> <<>>]
Str(chars) == [t |-> "string", v |-> chars]
Val(type, lit) == [t |-> type, v |-> <<lit>>]

\* JavaScript truthiness (lines 289, 304, 309, 312)
Truthy(x) ==
    CASE x.t \in {"undefined", "null"} -> FALSE
      [] x.t = "string" -> x.v # <<>>
      [] x.t = "number" -> x.v \notin {<<"0">>, <<"NaN">>}
      [] x.t = "boolean" -> x.v = <<"true">>
      [] OTHER -> TRUE

\* JSON.stringify(value, null, 2) of line 313: a string is quoted, the rest is its literal
JsonStringify(x) == IF x.t = "string" THEN <<"\"">> \o x.v \o <<"\"">> ELSE x.v

Min(a, b) == IF a < b THEN a ELSE b

\* slice taking the character at index to as well
SliceInclusive(str, from, to) == SubSeq(str, from + 1, Min(to + 1, Len(str)))

\* String.prototype.slice(from, to) for 0 <= from <= to
Slice(str, from, to) == SubSeq(str, from + 1, Min(to, Len(str)))

\* lines 292-300: the contents of the text chunks from offset i on
RECURSIVE TextSlices(_, _)
TextSlices(text, i) ==
    IF i < Len(text) THEN <<Slice(text, i, i + ChunkSize)>> \o TextSlices(text, i + ChunkSize)
    ELSE <<>>

\* line 312: the tool call goes into the summary
ValidToolResult(toolCall) ==
    Truthy(toolCall.name) /\ Truthy(toolCall.result) /\ toolCall.result.t # "undefined"

\* line 313: the line of one tool call
ToolLine(toolCall) ==
    <<"\n- ">> \o toolCall.name.v \o <<": ">> \o JsonStringify(toolCall.result) \o <<"\n">>

\* lines 310-316: the lines of the tool calls of one step
RECURSIVE CallLines(_)
CallLines(toolCalls) ==
    IF toolCalls = <<>> THEN <<>>
    ELSE (IF ValidToolResult(Head(toolCalls)) THEN ToolLine(Head(toolCalls)) ELSE <<>>)
         \o CallLines(Tail(toolCalls))

\* lines 308-318: the lines of all steps
RECURSIVE StepLines(_)
StepLines(steps) ==
    IF steps = <<>> THEN <<>>
    ELSE (IF Head(steps).hasToolCalls THEN CallLines(Head(steps).toolCalls) ELSE <<>>)
         \o StepLines(Tail(steps))

\* lines 305, 314: some tool call went into the summary
HasValidToolResults(resp) ==
    /\ resp.hasSteps
    /\ \E i \in 1..Len(resp.steps) :
          /\ resp.steps[i].hasToolCalls
          /\ \E j \in 1..Len(resp.steps[i].toolCalls) :
                ValidToolResult(resp.steps[i].toolCalls[j])

\* lines 306-318: the content of the tool-summary chunk
ToolResults(resp) == <<"\n\n**Learning Tools Used:**\n">> \o StepLines(resp.steps)

\* lines 293-299, 322-328, 333-339: a chunk in the OpenAI streaming shape
Chunk(content) == [choices |-> <<[delta |-> [content |-> content]]>>]

\* the chunks with the tool summary pushed ahead of the text
ChunksSummaryFirst(resp) ==
    LET textPart == IF Truthy(resp.text)
                    THEN [i \in 1..Len(TextSlices(resp.text.v, 0)) |->
                             Chunk(TextSlices(resp.text.v, 0)[i])]
                    ELSE <<>>
        toolPart == IF resp.hasSteps /\ Len(resp.steps) > 0 /\ HasValidToolResults(resp)
                    THEN <<Chunk(ToolResults(resp))>>
                    ELSE <<>>
    IN toolPart \o textPart \o <<Chunk(<<>>)>>

\* lines 286-339: the chunks of a resp
Chunks(resp) ==
    LET textPart == IF Truthy(resp.text)
                    THEN [i \in 1..Len(TextSlices(resp.text.v, 0)) |->
                             Chunk(TextSlices(resp.text.v, 0)[i])]
                    ELSE <<>>
        toolPart == IF resp.hasSteps /\ Len(resp.steps) > 0 /\ HasValidToolResults(resp)
                    THEN <<Chunk(ToolResults(resp))>>
                    ELSE <<>>
    IN textPart \o toolPart \o <<Chunk(<<>>)>>

\* line 351: the event of a chunk; line 358: the final event
WireChunk(chunk) == [data |-> "json", json |-> chunk]
DoneItem == [data |-> "[DONE]", json |-> Chunk(<<>>)]

NoStream == [state |-> "none", chunks |-> <<>>, chunkIndex |-> 0, queue |-> <<>>,
             closeRequested |-> FALSE, cancelled |-> FALSE, delivered |-> <<>>,
             enqueued |-> <<>>, timer |-> FALSE, timersSet |-> 0, late |-> 0, lateTimers |-> 0,
             uncaught |-> 0]

\* ReadableStreamDefaultControllerCanCloseOrEnqueue of the Streams standard
CanCloseOrEnqueue(e) == e.state = "readable" /\ ~e.closeRequested

\* controller.enqueue(item) on a stream that accepts it
Enqueue(e, item) == [e EXCEPT !.queue = Append(@, item), !.enqueued = Append(@, item)]

\* controller.enqueue or controller.close on a stream that does not accept it: a TypeError
\* leaves the callback
Throw(e) == [e EXCEPT !.uncaught = @ + 1, !.late = IF e.cancelled THEN @ + 1 ELSE @]

\* sendChunk without the close of line 359
SendChunkNoClose(e) ==
    IF e.chunkIndex < Len(e.chunks)
    THEN LET e1 == [e EXCEPT !.chunkIndex = @ + 1]
             item == WireChunk(e.chunks[e.chunkIndex + 1])
         IN IF CanCloseOrEnqueue(e1)
            THEN [Enqueue(e1, item) EXCEPT !.timer = TRUE, !.timersSet = @ + 1,
                                          !.lateTimers = IF e.cancelled THEN @ + 1 ELSE @]
            ELSE Throw(e1)
    ELSE IF CanCloseOrEnqueue(e)
         THEN Enqueue(e, DoneItem)
         ELSE Throw(e)

\* sendChunk without the setTimeout of line 355
SendChunkNoTimer(e) ==
    IF e.chunkIndex < Len(e.chunks)
    THEN LET e1 == [e EXCEPT !.chunkIndex = @ + 1]
             item == WireChunk(e.chunks[e.chunkIndex + 1])
         IN IF CanCloseOrEnqueue(e1)
            THEN Enqueue(e1, item)
            ELSE Throw(e1)
    ELSE IF CanCloseOrEnqueue(e)
         THEN [Enqueue(e, DoneItem) EXCEPT !.closeRequested = TRUE]
         ELSE Throw(e)

\* lines 348-361: one run of sendChunk
SendChunk(e) ==
    IF e.chunkIndex < Len(e.chunks)
    THEN LET e1 == [e EXCEPT !.chunkIndex = @ + 1]
             item == WireChunk(e.chunks[e.chunkIndex + 1])
         IN IF CanCloseOrEnqueue(e1)
            THEN [Enqueue(e1, item) EXCEPT !.timer = TRUE, !.timersSet = @ + 1,
                                          !.lateTimers = IF e.cancelled THEN @ + 1 ELSE @]
            ELSE Throw(e1)
    ELSE IF CanCloseOrEnqueue(e)
         THEN [Enqueue(e, DoneItem) EXCEPT !.closeRequested = TRUE]
         ELSE Throw(e)

\* lines 341-367: the stream as createStreamFromMastraResponse returns it
NewStream(resp) ==
    SendChunk([NoStream EXCEPT !.state = "readable", !.chunks = Chunks(resp)])

\* ------------------------------------------------------------ input domains

\* the i-th character of a response text
Char(i) == <<"a", "b", "c", "d", "e", "f", "g">>[(i % 7) + 1]
Text(len) == [i \in 1..len |-> Char(i)]
TextLens == {1, 49, 50, 51, 100, 101}
Texts == {Undefined, Str(<<>>)} \cup {Str(Text(n)) : n \in TextLens}

ToolCall(name, result) == [name |-> name, result |-> result]
Lookup == Str(<<"lookup">>)
StepsOf(toolCalls) == <<[hasToolCalls |-> TRUE, toolCalls |-> toolCalls]>>
NoSteps == [hasSteps |-> FALSE, steps |-> <<>>]
StepLists ==
    {NoSteps,
     [hasSteps |-> TRUE, steps |-> <<>>],
     [hasSteps |-> TRUE, steps |-> <<[hasToolCalls |-> FALSE, toolCalls |-> <<>>]>>],
     [hasSteps |-> TRUE, steps |-> StepsOf(<<ToolCall(Lookup, Undefined)>>)],
     [hasSteps |-> TRUE, steps |-> StepsOf(<<ToolCall(Undefined, Str(<<"ok">>))>>)],
     [hasSteps |-> TRUE, steps |-> StepsOf(<<ToolCall(Lookup, Str(<<"ok">>))>>)],
     [hasSteps |-> TRUE, steps |-> StepsOf(<<ToolCall(Lookup, Str(<<>>))>>)],
     [hasSteps |-> TRUE, steps |-> StepsOf(<<ToolCall(Lookup, Val("number", "0"))>>)],
     [hasSteps |-> TRUE, steps |-> StepsOf(<<ToolCall(Lookup, Val("boolean", "false"))>>)],
     [hasSteps |-> TRUE, steps |-> StepsOf(<<ToolCall(Lookup, Val("null", "null"))>>)],
     [hasSteps |-> TRUE, steps |-> StepsOf(<<ToolCall(Lookup, Val("object", "{}")),
                                             ToolCall(Lookup, Undefined)>>)]}

Response(text, sl) == [text |-> text, hasSteps |-> sl.hasSteps, steps |-> sl.steps]
Responses == {Response(t, sl) : t \in Texts, sl \in StepLists}
NoResponse == Response(Undefined, NoSteps)
\* the generation results the createMastraStream calls of Spec receive
GenResponses == {Response(Str(Text(51)), NoSteps)}

Message(content) == [role |-> "user", content |-> content]
MessageLists == {<<>>,
                 <<Message(Str(<<"hi">>))>>,
                 <<Message(Str(<<"hi">>)), Message([t |-> "array", v |-> <<"text", "image_url">>])>>}

\* ------------------------------------------------- initializeTeachingAssistant

\* line 11: loadMastraModules returns the cached module set
ModulesCached(m) == m # 0

\* line 52: the cached agent was built for another credential
KeyChanged(agent, cur, k) == agent # NoAgent /\ cur # k

\* the comparison of line 58 inverted
CacheHitInverted(agent, cur, k) == agent # NoAgent /\ cur # k

\* line 58: the cached agent can be reused
CacheHit(agent, cur, k) == agent # NoAgent /\ cur = k

\* lines 52-56: the cache after the reset
AgentAfterReset(agent, cur, k) == IF KeyChanged(agent, cur, k) THEN NoAgent ELSE agent
KeyAfterReset(agent, cur, k) == IF KeyChanged(agent, cur, k) THEN NoKey ELSE cur

\* lines 84-90: courseTools after the getTools call settled
CourseTools(outcome) == IF outcome.ok THEN outcome.tools ELSE {}

\* the catch of line 88 rethrowing: a rejected getTools leaves the try block of line 63
FailingStepRethrow(outcome, ctor) ==
    IF ~outcome.ok THEN "getTools"
    ELSE IF ctor = "memoryThrows" THEN "memory"
    ELSE IF ctor = "agentThrows" THEN "agent"
    ELSE "none"

\* lines 85-90, 92-153, 157-203: the step of the build whose error leaves the try block
\* of line 63, "none" when the build goes through; a rejected getTools is caught at line 88
FailingStep(outcome, ctor) ==
    IF ctor = "memoryThrows" THEN "memory"
    ELSE IF ctor = "agentThrows" THEN "agent"
    ELSE "none"

\* lines 39-42: mastraModules after a rejected import
ModulesAfterReject(m) == m

\* the model of line 200 taking its credential from process.env instead of apiKey
NewAgentEnvKey(id, k, tools, mem) ==
    [id |-> id, key |-> envApiKey, tools |-> tools, memory |-> mem]

\* lines 157-203: the agent object
NewAgent(id, k, tools, mem) == [id |-> id, key |-> k, tools |-> tools, memory |-> mem]

\* line 206 left out: no credential is recorded
RecordedKeyMissing(k) == NoKey

\* line 206: the credential recorded for the new agent
RecordedKey(k) == k

NoSnapshot == [agent |-> NoAgent, key |-> NoKey, agents |-> 0]

InFlight(p) == pc[p] \in {"awaitImport", "awaitLoader", "awaitTools"}
Ended(p) == pc[p] \in {"done", "failed"}

\* a validateApiKey call that has not returned
NoResult == [success |-> FALSE, error |-> "pending"]
\* a session whose streamChat has not been called
NoChat == [pc |-> "idle", apiKey |-> NoKey, out |-> "none", genKey |-> NoKey, genAgent |-> NoAgent]

Base ==
    /\ valPc = [v \in ValProcs |-> "idle"]
    /\ valApiKey = [v \in ValProcs |-> Undefined]
    /\ valResult = [v \in ValProcs |-> NoResult]
    /\ fetched = [v \in ValProcs |-> <<>>]
    /\ chat = [s \in Procs |-> NoChat]
    /\ teachingAssistantAgent = NoAgent
    /\ mastraModules = 0
    /\ mcpClient = 0
    /\ currentApiKey = NoKey
    /\ envApiKey = NoKey
    /\ ctr = [load |-> 0, modsets |-> 0, mcp |-> 0, tools |-> 0, memory |-> 0, agent |-> 0]
    /\ pc = [p \in Procs |-> "idle"]
    /\ apiKey = [p \in Procs |-> NoKey]
    /\ ret = [p \in Procs |-> NoAgent]
    /\ failStep = [p \in Procs |-> "none"]
    /\ mods = [p \in Procs |-> 0]
    /\ toolsRejected = [p \in Procs |-> FALSE]
    /\ solo = [p \in Procs |-> TRUE]
    /\ atStart = [p \in Procs |-> NoSnapshot]
    /\ lastDone = [ok |-> FALSE, key |-> NoKey, agent |-> NoAgent]
    /\ calls = 0
    /\ spc = "idle"
    /\ messages = <<>>
    /\ sres = "none"
    /\ genCount = 0
    /\ genKey = NoKey
    /\ genAgent = NoAgent
    /\ msgRead = FALSE
    /\ streamCalls = 0
    /\ streamCount = 0
    /\ em = NoStream

Init == Base /\ response = NoResponse

\* lines 48-68 and 10-26: the call up to its first await
BeginCall(p, k) ==
    /\ pc[p] = "idle"
    /\ calls < MaxCalls
    /\ calls' = calls + 1
    /\ apiKey' = [apiKey EXCEPT ![p] = k]
    /\ atStart' = [atStart EXCEPT ![p] = [agent |-> teachingAssistantAgent,
                                          key |-> currentApiKey,
                                          agents |-> ctr.agent]]
    /\ solo' = [q \in Procs |-> IF q = p THEN \A r \in Procs : ~InFlight(r)
                                ELSE IF InFlight(q) THEN FALSE ELSE solo[q]]
    /\ failStep' = [failStep EXCEPT ![p] = "none"]
    /\ teachingAssistantAgent' = AgentAfterReset(teachingAssistantAgent, currentApiKey, k)
    /\ currentApiKey' = KeyAfterReset(teachingAssistantAgent, currentApiKey, k)
    /\ IF CacheHit(teachingAssistantAgent', currentApiKey', k)
       THEN /\ pc' = [pc EXCEPT ![p] = "done"]
            /\ ret' = [ret EXCEPT ![p] = teachingAssistantAgent']
            /\ lastDone' = [ok |-> TRUE, key |-> k, agent |-> teachingAssistantAgent']
            /\ UNCHANGED <<envApiKey, ctr, mods>>
       ELSE /\ envApiKey' = k
            /\ ret' = [ret EXCEPT ![p] = NoAgent]
            /\ IF ModulesCached(mastraModules)
               THEN /\ pc' = [pc EXCEPT ![p] = "awaitLoader"]
                    /\ mods' = [mods EXCEPT ![p] = mastraModules]
                    /\ UNCHANGED ctr
               ELSE /\ pc' = [pc EXCEPT ![p] = "awaitImport"]
                    /\ mods' = [mods EXCEPT ![p] = 0]
                    /\ ctr' = [ctr EXCEPT !.load = @ + 1]
            /\ UNCHANGED lastDone
    /\ UNCHANGED <<mastraModules, mcpClient, toolsRejected, genVars, valVars>>

\* a direct call of initializeTeachingAssistant; the callers are interchangeable, so the
\* call is made by the first caller that is free
Begin(p, k) ==
    /\ \A q \in Procs : q < p => pc[q] # "idle"
    /\ BeginCall(p, k)
    /\ UNCHANGED chat

\* lines 28-38: the imports of this call resolved
LoadResolve(p) ==
    /\ pc[p] = "awaitImport"
    /\ mastraModules' = ctr.modsets + 1
    /\ mods' = [mods EXCEPT ![p] = mastraModules']
    /\ ctr' = [ctr EXCEPT !.modsets = @ + 1]
    /\ pc' = [pc EXCEPT ![p] = "awaitLoader"]
    /\ UNCHANGED <<teachingAssistantAgent, mcpClient, currentApiKey, envApiKey,
                   apiKey, ret, failStep, toolsRejected, solo, atStart, lastDone, calls, genVars, facadeVars>>

\* lines 39-42 and 210-213: an import of this call was rejected
LoadReject(p) ==
    /\ pc[p] = "awaitImport"
    /\ pc' = [pc EXCEPT ![p] = "failed"]
    /\ failStep' = [failStep EXCEPT ![p] = "load"]
    /\ lastDone' = [ok |-> FALSE, key |-> apiKey[p], agent |-> NoAgent]
    /\ mastraModules' = ModulesAfterReject(mastraModules)
    /\ UNCHANGED <<teachingAssistantAgent, mcpClient, currentApiKey, envApiKey, ctr,
                   apiKey, ret, mods, toolsRejected, solo, atStart, calls, genVars, facadeVars>>

\* the test of line 71 left out: every build constructs a client
ClientMissingAlways(client) == TRUE

\* line 71: no tool client has been constructed yet
ClientMissing(client) == client = 0

\* lines 68-86: from the loaded modules to the getTools call
AfterLoad(p, mcpThrows) ==
    /\ pc[p] = "awaitLoader"
    /\ mcpThrows => ClientMissing(mcpClient)
    /\ IF ClientMissing(mcpClient) /\ mcpThrows
       THEN /\ pc' = [pc EXCEPT ![p] = "failed"]
            /\ failStep' = [failStep EXCEPT ![p] = "mcp"]
            /\ lastDone' = [ok |-> FALSE, key |-> apiKey[p], agent |-> NoAgent]
            /\ UNCHANGED <<mcpClient, ctr>>
       ELSE /\ mcpClient' = IF ClientMissing(mcpClient) THEN ctr.mcp + 1 ELSE mcpClient
            /\ ctr' = [ctr EXCEPT !.mcp = IF ClientMissing(mcpClient) THEN @ + 1 ELSE @,
                                  !.tools = @ + 1]
            /\ pc' = [pc EXCEPT ![p] = "awaitTools"]
            /\ UNCHANGED <<failStep, lastDone>>
    /\ UNCHANGED <<teachingAssistantAgent, mastraModules, currentApiKey, envApiKey,
                   apiKey, ret, mods, toolsRejected, solo, atStart, calls, genVars, facadeVars>>

\* lines 86-213: from the settled getTools call to the return
AfterTools(p, outcome, ctor) ==
    /\ pc[p] = "awaitTools"
    /\ toolsRejected' = [toolsRejected EXCEPT ![p] = ~outcome.ok]
    /\ IF FailingStep(outcome, ctor) = "none"
       THEN /\ teachingAssistantAgent' = NewAgent(ctr.agent + 1, apiKey[p],
                                                  CourseTools(outcome), ctr.memory + 1)
            /\ currentApiKey' = RecordedKey(apiKey[p])
            /\ ctr' = [ctr EXCEPT !.memory = @ + 1, !.agent = @ + 1]
            /\ pc' = [pc EXCEPT ![p] = "done"]
            /\ ret' = [ret EXCEPT ![p] = teachingAssistantAgent']
            /\ lastDone' = [ok |-> TRUE, key |-> apiKey[p], agent |-> teachingAssistantAgent']
            /\ UNCHANGED failStep
       ELSE /\ ctr' = [ctr EXCEPT !.memory = IF FailingStep(outcome, ctor) = "agent"
                                            THEN @ + 1 ELSE @]
            /\ pc' = [pc EXCEPT ![p] = "failed"]
            /\ failStep' = [failStep EXCEPT ![p] = FailingStep(outcome, ctor)]
            /\ lastDone' = [ok |-> FALSE, key |-> apiKey[p], agent |-> NoAgent]
            /\ UNCHANGED <<teachingAssistantAgent, currentApiKey, ret>>
    /\ UNCHANGED <<mastraModules, mcpClient, envApiKey, apiKey, mods, solo, atStart, calls, genVars, facadeVars>>

\* the caller has taken the result; the slot can make another call
Return(p) ==
    /\ Ended(p)
    /\ pc' = [pc EXCEPT ![p] = "idle"]
    /\ apiKey' = [apiKey EXCEPT ![p] = NoKey]
    /\ ret' = [ret EXCEPT ![p] = NoAgent]
    /\ failStep' = [failStep EXCEPT ![p] = "none"]
    /\ mods' = [mods EXCEPT ![p] = 0]
    /\ toolsRejected' = [toolsRejected EXCEPT ![p] = FALSE]
    /\ solo' = [solo EXCEPT ![p] = TRUE]
    /\ atStart' = [atStart EXCEPT ![p] = NoSnapshot]
    /\ UNCHANGED <<cacheVars, lastDone, calls, genVars, facadeVars>>

\* ---------------------------------------------------------- createMastraStream

\* line 258: a credential is recorded
KeyPresent(cur) == cur # NoKey

\* the check of line 221 made after line 229 read the messages
StreamPrecheckLate(agent, cur, m) ==
    IF Len(m) = 0 THEN "typeError"
    ELSE IF agent = NoAgent THEN "notInitialized"
    ELSE IF ~KeyPresent(cur) THEN "noApiKey"
    ELSE "generate"

\* lines 221-260: what the call does before it awaits: the error it throws, or "generate"
StreamPrecheck(agent, cur, m) ==
    IF agent = NoAgent THEN "notInitialized"
    ELSE IF Len(m) = 0 THEN "typeError"
    ELSE IF ~KeyPresent(cur) THEN "noApiKey"
    ELSE "generate"

\* line 229: the call reads messages only after the check of line 221
ReadsMessages(agent, cur, m) == StreamPrecheck(agent, cur, m) # "notInitialized"

\* lines 219-271: the call up to its await of agent.generate
StreamBegin(m) ==
    /\ spc = "idle"
    /\ streamCalls < MaxStreamCalls
    /\ streamCalls' = streamCalls + 1
    /\ messages' = m
    /\ msgRead' = ReadsMessages(teachingAssistantAgent, currentApiKey, m)
    /\ LET check == StreamPrecheck(teachingAssistantAgent, currentApiKey, m)
       IN IF check = "generate"
          THEN /\ spc' = "awaitGenerate"
               /\ sres' = "none"
               /\ genCount' = genCount + 1
               /\ genKey' = currentApiKey
               /\ genAgent' = teachingAssistantAgent
          ELSE /\ spc' = "failed"
               /\ sres' = check
               /\ UNCHANGED <<genCount, genKey, genAgent>>
    /\ UNCHANGED <<lifeVars, facadeVars, streamCount, response, em>>

\* lines 262-274: generate resolved, the stream is built and returned
GenResolve(r) ==
    /\ spc = "awaitGenerate"
    /\ response' = r
    /\ em' = NewStream(r)
    /\ streamCount' = streamCount + 1
    /\ spc' = "done"
    /\ sres' = "stream"
    /\ UNCHANGED <<lifeVars, facadeVars, messages, genCount, genKey, genAgent, msgRead, streamCalls>>

\* the catch of line 276 dropping the cached agent before it rethrows
GenRejectDropsAgent ==
    /\ spc = "awaitGenerate"
    /\ spc' = "failed"
    /\ sres' = "upstream"
    /\ teachingAssistantAgent' = NoAgent
    /\ currentApiKey' = NoKey
    /\ UNCHANGED <<mastraModules, mcpClient, envApiKey, ctr, pc, apiKey, ret, failStep, mods,
                   toolsRejected, solo, atStart, lastDone, calls,
                   messages, genCount, genKey, genAgent, msgRead, streamCalls,
                   streamCount, response, em, facadeVars>>

\* lines 276-279: generate was rejected, the error is rethrown
GenReject ==
    /\ spc = "awaitGenerate"
    /\ spc' = "failed"
    /\ sres' = "upstream"
    /\ UNCHANGED <<lifeVars, facadeVars, messages, genCount, genKey, genAgent, msgRead, streamCalls,
                   streamCount, response, em>>

\* the caller has taken the outcome; another call can be made
StreamReturn ==
    /\ spc \in {"done", "failed"}
    /\ spc' = "idle"
    /\ messages' = <<>>
    /\ sres' = "none"
    /\ genKey' = NoKey
    /\ genAgent' = NoAgent
    /\ msgRead' = FALSE
    /\ UNCHANGED <<lifeVars, facadeVars, genCount, streamCalls, streamCount, response, em>>

\* ------------------------------------------------------ the stream at run time

\* the response of the build under SpecEmit is handed to createStreamFromMastraResponse
EmitCreate ==
    /\ em.state = "none"
    /\ em' = NewStream(response)
    /\ streamCount' = streamCount + 1
    /\ UNCHANGED <<lifeVars, facadeVars, callVars, response>>

\* line 355: the timer set by sendChunk fires and runs sendChunk
TimerFire ==
    /\ em.timer
    /\ em' = SendChunk([em EXCEPT !.timer = FALSE])
    /\ UNCHANGED <<lifeVars, facadeVars, callVars, streamCount, response>>

\* the consumer reads one item; a stream whose close was requested closes when drained
Read ==
    /\ em.state = "readable"
    /\ em.queue # <<>>
    /\ em' = [em EXCEPT !.delivered = Append(@, Head(em.queue)),
                        !.queue = Tail(@),
                        !.state = IF Tail(em.queue) = <<>> /\ em.closeRequested
                                  THEN "closed" ELSE @]
    /\ UNCHANGED <<lifeVars, facadeVars, callVars, streamCount, response>>

\* the consumer cancels the stream: the queue is dropped and the stream is closed
Cancel ==
    /\ em.state = "readable"
    /\ em' = [em EXCEPT !.state = "closed", !.queue = <<>>, !.cancelled = TRUE]
    /\ UNCHANGED <<lifeVars, facadeVars, callVars, streamCount, response>>

\* ------------------------------------------------------- createStreamingLLM

\* the conversation a session hands to streamChat
ChatMessages == <<Message(Str(<<"hi">>))>>

\* lines 411-415 and 219-271: streamChat calls createMastraStream, which runs up to its
\* await of agent.generate; c is the session as the call found it
StreamCall(s, c) ==
    LET check == StreamPrecheck(teachingAssistantAgent, currentApiKey, ChatMessages)
    IN chat' = [chat EXCEPT
                  ![s] = IF check = "generate"
                         THEN [c EXCEPT !.pc = "awaitGenerate",
                                        !.genKey = currentApiKey,
                                        !.genAgent = teachingAssistantAgent]
                         ELSE [c EXCEPT !.pc = "failed", !.out = check]]

\* lines 405-415: streamChat of a session created with credential k, up to its first
\* await; the sessions are interchangeable, so the call is made on the first unused one
ChatBegin(s, k) ==
    /\ chat[s].pc = "idle"
    /\ \A q \in Procs : q < s => chat[q].pc # "idle"
    /\ IF teachingAssistantAgent = NoAgent
       THEN /\ BeginCall(s, k)
            /\ chat' = [chat EXCEPT ![s] = [NoChat EXCEPT !.pc = "awaitInit", !.apiKey = k]]
       ELSE /\ StreamCall(s, [NoChat EXCEPT !.apiKey = k])
            /\ UNCHANGED <<lifeVars, genVars, valVars>>

\* lines 407-415: the initializeTeachingAssistant call of streamChat settled
ChatAfterInit(s) ==
    /\ chat[s].pc = "awaitInit"
    /\ Ended(s)
    /\ IF pc[s] = "failed"
       THEN chat' = [chat EXCEPT ![s].pc = "failed", ![s].out = "initError"]
       ELSE StreamCall(s, chat[s])
    /\ UNCHANGED <<lifeVars, genVars, valVars>>

\* lines 262-274: generate resolved for the session, its stream is built and returned
ChatGenResolve(s, r) ==
    /\ chat[s].pc = "awaitGenerate"
    /\ chat' = [chat EXCEPT ![s].pc = "done", ![s].out = "stream"]
    /\ response' = r
    /\ em' = NewStream(r)
    /\ streamCount' = streamCount + 1
    /\ UNCHANGED <<lifeVars, callVars, valVars>>

\* lines 276-279: generate was rejected for the session
ChatGenReject(s) ==
    /\ chat[s].pc = "awaitGenerate"
    /\ chat' = [chat EXCEPT ![s].pc = "failed", ![s].out = "upstream"]
    /\ UNCHANGED <<lifeVars, genVars, valVars>>

\* ------------------------------------------- MastraProvider.validateApiKey

\* the credentials handed to validateApiKey
ValKeys == {Undefined, Val("null", "null"), Val("number", "42"), Str(<<>>),
            Str(<<"p", "k", "-", "1">>), Str(<<"x", "s", "k", "-">>), Str(<<"s", "k">>),
            Str(<<"s", "k", "-">>), Str(<<"s", "k", "-", "1">>)}

\* String.prototype.startsWith
StartsWith(str, prefix) == Len(str) >= Len(prefix) /\ SubSeq(str, 1, Len(prefix)) = prefix

\* line 376 without the test of the prefix
MalformedAnyString(x) == ~Truthy(x) \/ x.t # "string"

\* line 376: the credential fails the format check
Malformed(x) == ~Truthy(x) \/ x.t # "string" \/ ~StartsWith(x.v, <<"s", "k", "-">>)

\* lines 385-393: the ways fetch settles, and what response.json() gives for a response
\* that is not ok: a body with a message, a body without one, or a rejection (line 389)
FetchOutcomes == {"ok", "notOk", "rejected"}
Bodies == {[parsed |-> TRUE, message |-> "Incorrect API key provided."],
           [parsed |-> TRUE, message |-> ""],
           [parsed |-> FALSE, message |-> ""]}

\* lines 389-390: the message of a response that is not ok
ErrorMessage(body) ==
    IF body.parsed /\ body.message # "" THEN body.message
    ELSE "Validation failed with status: 401"

\* lines 375-383: the call up to its await of fetch
ValidateBegin(v, c) ==
    /\ valPc[v] = "idle"
    /\ \A u \in ValProcs : u < v => valPc[u] # "idle"
    /\ valApiKey' = [valApiKey EXCEPT ![v] = c]
    /\ IF Malformed(c)
       THEN /\ valPc' = [valPc EXCEPT ![v] = "done"]
            /\ valResult' = [valResult EXCEPT
                                ![v] = [success |-> FALSE,
                                        error |-> "Invalid OpenAI API key format."]]
            /\ UNCHANGED fetched
       ELSE /\ valPc' = [valPc EXCEPT ![v] = "awaitFetch"]
            /\ fetched' = [fetched EXCEPT ![v] = Append(@, c.v)]
            /\ UNCHANGED valResult
    /\ UNCHANGED <<lifeVars, genVars, chat>>

\* lines 381-389 and 394-397: fetch settled
FetchSettle(v, outcome) ==
    /\ valPc[v] = "awaitFetch"
    /\ CASE outcome = "ok" ->
              /\ valPc' = [valPc EXCEPT ![v] = "done"]
              /\ valResult' = [valResult EXCEPT ![v] = [success |-> TRUE, error |-> "none"]]
         [] outcome = "notOk" ->
              /\ valPc' = [valPc EXCEPT ![v] = "awaitBody"]
              /\ UNCHANGED valResult
         [] outcome = "rejected" ->
              /\ valPc' = [valPc EXCEPT ![v] = "done"]
              /\ valResult' = [valResult EXCEPT
                                  ![v] = [success |-> FALSE,
                                          error |-> "A network error occurred during validation."]]
    /\ UNCHANGED <<lifeVars, genVars, valApiKey, fetched, chat>>

\* lines 389-391: the body of a response that is not ok settled
BodySettle(v, body) ==
    /\ valPc[v] = "awaitBody"
    /\ valPc' = [valPc EXCEPT ![v] = "done"]
    /\ valResult' = [valResult EXCEPT ![v] = [success |-> FALSE, error |-> ErrorMessage(body)]]
    /\ UNCHANGED <<lifeVars, genVars, valApiKey, fetched, chat>>

\* the initializeTeachingAssistant calls, made by any number of overlapping callers
Next ==
    \/ \E p \in Procs, k \in Keys : Begin(p, k)
    \/ \E p \in Procs : LoadResolve(p)
    \/ \E p \in Procs : LoadReject(p)
    \/ \E p \in Procs, t \in BOOLEAN : AfterLoad(p, t)
    \/ \E p \in Procs, o \in GetToolsOutcomes,
          c \in {"ok", "memoryThrows", "agentThrows"} : AfterTools(p, o, c)
    \/ \E p \in Procs : Return(p)

Spec == Init /\ [][Next]_vars

\* createMastraStream calls next to the initializeTeachingAssistant calls of GenCallers callers
NextGen ==
    \/ \E p \in GenProcs, k \in Keys : Begin(p, k)
    \/ \E p \in GenProcs : LoadResolve(p)
    \/ \E p \in GenProcs : LoadReject(p)
    \/ \E p \in GenProcs, t \in BOOLEAN : AfterLoad(p, t)
    \/ \E p \in GenProcs, o \in GetToolsOutcomes,
          c \in {"ok", "memoryThrows", "agentThrows"} : AfterTools(p, o, c)
    \/ \E p \in GenProcs : Return(p)
    \/ \E m \in MessageLists : StreamBegin(m)
    \/ \E r \in GenResponses : GenResolve(r)
    \/ GenReject
    \/ StreamReturn

SpecGen == Init /\ [][NextGen]_vars

InitEmit == Base /\ response \in Responses

NextEmit ==
    \/ EmitCreate
    \/ TimerFire
    \/ Read
    \/ Cancel

SpecEmit == InitEmit /\ [][NextEmit]_vars

\* the stream with a caller that makes the call, an event loop that runs every timer that
\* is due (line 355) and a consumer that goes on reading; nothing obliges the consumer
\* to cancel
SpecEmitFair ==
    /\ InitEmit
    /\ [][NextEmit]_vars
    /\ WF_vars(EmitCreate)
    /\ WF_vars(TimerFire)
    /\ WF_vars(Read)

\* streamChat calls of overlapping sessions of createStreamingLLM
NextChat ==
    \/ \E s \in Procs, k \in Keys : ChatBegin(s, k)
    \/ \E s \in Procs : LoadResolve(s)
    \/ \E s \in Procs : LoadReject(s)
    \/ \E s \in Procs, t \in BOOLEAN : AfterLoad(s, t)
    \/ \E s \in Procs, o \in GetToolsOutcomes,
          c \in {"ok", "memoryThrows", "agentThrows"} : AfterTools(s, o, c)
    \/ \E s \in Procs : ChatAfterInit(s)
    \/ \E s \in Procs, r \in GenResponses : ChatGenResolve(s, r)
    \/ \E s \in Procs : ChatGenReject(s)

SpecChat == Init /\ [][NextChat]_vars

\* overlapping validateApiKey calls
NextValidate ==
    \/ \E v \in ValProcs, c \in ValKeys : ValidateBegin(v, c)
    \/ \E v \in ValProcs, o \in FetchOutcomes : FetchSettle(v, o)
    \/ \E v \in ValProcs, b \in Bodies : BodySettle(v, b)

SpecValidate == Init /\ [][NextValidate]_vars

TypeOK ==
    /\ pc \in [Procs -> {"idle", "awaitImport", "awaitLoader", "awaitTools", "done", "failed"}]
    /\ calls \in 0..MaxCalls
    /\ spc \in {"idle", "awaitGenerate", "done", "failed"}
    /\ em.state \in {"none", "readable", "closed"}

\* ------------------------------------------------------------------ properties

NoneInFlight == \A q \in Procs : ~InFlight(q)
Begins(p) == pc[p] = "idle" /\ pc'[p] # "idle"
Completes(p) == InFlight(p) /\ pc'[p] \in {"done", "failed"}
Building == {p \in Procs : InFlight(p)}
Importing == {p \in Procs : pc[p] = "awaitImport"}

\* C1: with no call in flight and the last call to return having been a successful
\* initializeTeachingAssistant(A), a call initializeTeachingAssistant(A) returns at once
\* with the handle that call returned, builds nothing (no load, no getTools, no Memory,
\* no Agent) and leaves the cached handle and the recorded credential as they were.
C1_SameKeyReusesHandle ==
    [][\A p \in Procs :
          (Begins(p) /\ NoneInFlight /\ lastDone.ok /\ apiKey'[p] = lastDone.key)
          => /\ pc'[p] = "done"
             /\ ret'[p] = lastDone.agent
             /\ ctr' = ctr
             /\ teachingAssistantAgent' = teachingAssistantAgent
             /\ teachingAssistantAgent' = lastDone.agent
             /\ currentApiKey' = currentApiKey
             /\ currentApiKey' = lastDone.key]_vars

C1_Witness ==
    \E p \in Procs :
        /\ pc[p] = "done" /\ solo[p] /\ calls = 2
        /\ atStart[p].agent # NoAgent /\ atStart[p].key = apiKey[p]
        /\ ret[p] = atStart[p].agent /\ ctr.agent = 1

\* C2: with no other call in flight, a call initializeTeachingAssistant(B) that finds a
\* handle cached for another credential A drops that handle and the recorded credential
\* before it builds, and when it succeeds it has built exactly one new agent, the cached
\* handle is that new agent and currentApiKey is B.
C2_ChangedKeyRebuilds ==
    [][\A p \in Procs :
          /\ (Begins(p) /\ NoneInFlight /\ lastDone.ok /\ apiKey'[p] # lastDone.key)
             => /\ teachingAssistantAgent' = NoAgent
                /\ currentApiKey' = NoKey
                /\ pc'[p] \in {"awaitImport", "awaitLoader"}
          /\ (Completes(p) /\ pc'[p] = "done" /\ solo[p]
                /\ atStart[p].agent # NoAgent /\ atStart[p].key # apiKey[p])
             => /\ teachingAssistantAgent' = ret'[p]
                /\ ret'[p].id # atStart[p].agent.id
                /\ ret'[p].key = apiKey[p]
                /\ ctr'.agent = atStart[p].agents + 1
                /\ currentApiKey' = apiKey[p]]_vars

C2_Witness ==
    \E p \in Procs :
        /\ pc[p] = "done" /\ solo[p]
        /\ atStart[p].agent # NoAgent /\ atStart[p].key = "A" /\ apiKey[p] = "B"
        /\ teachingAssistantAgent = ret[p] /\ currentApiKey = "B" /\ ctr.agent = 2

\* C3: at most one build of initializeTeachingAssistant (from its first await to its
\* cache write) is in progress at any time.
C3_BuildsSerialized == Cardinality(Building) <= 1

\* C4: when a call of initializeTeachingAssistant fails, the cache is empty at its return:
\* no cached handle and no recorded credential.
C4_FailureLeavesCacheEmpty ==
    [][\A p \in Procs :
          (Completes(p) /\ pc'[p] = "failed")
          => (teachingAssistantAgent' = NoAgent /\ currentApiKey' = NoKey)]_vars

\* C5: a rejected getTools call is not what fails initializeTeachingAssistant: the call
\* goes on to the constructors, and unless one of them throws it returns the agent it
\* cached, whose tool set is empty, with currentApiKey equal to the requested credential.
C5_ToolFailureTolerated ==
    [][\A p \in Procs :
          (pc[p] = "awaitTools" /\ pc'[p] # "awaitTools" /\ toolsRejected'[p])
          => \/ /\ pc'[p] = "failed"
                /\ failStep'[p] \in {"memory", "agent"}
             \/ /\ pc'[p] = "done"
                /\ ret'[p] = teachingAssistantAgent'
                /\ ret'[p].tools = {}
                /\ ret'[p].key = apiKey[p]
                /\ ret'[p].id = ctr.agent + 1
                /\ currentApiKey' = apiKey[p]]_vars

C5_Witness ==
    \E p \in Procs :
        /\ pc[p] = "done" /\ toolsRejected[p]
        /\ teachingAssistantAgent = ret[p] /\ ret[p].tools = {} /\ ret[p].id > 0

\* C6: at most one dependency load of loadMastraModules is in flight at any time.
C6_SingleFlightLoad == Cardinality(Importing) <= 1

\* C7: a rejected load fails its call and leaves mastraModules null when the call
\* returns; a call that finds mastraModules null starts a load of its own; once
\* mastraModules is set it stays set and a later call gets the cached module set without
\* starting a load.
C7_FailedLoadLeavesCacheEmpty ==
    [][\A p \in Procs :
          /\ (pc[p] = "awaitImport" /\ pc'[p] = "failed")
             => /\ failStep'[p] = "load"
                /\ mastraModules' = 0
          /\ (Begins(p) /\ pc'[p] # "done" /\ mastraModules = 0)
             => /\ pc'[p] = "awaitImport"
                /\ ctr'.load = ctr.load + 1
          /\ (Begins(p) /\ pc'[p] # "done" /\ mastraModules # 0)
             => /\ pc'[p] = "awaitLoader"
                /\ mods'[p] = mastraModules
                /\ ctr'.load = ctr.load
          /\ mastraModules # 0 => mastraModules' # 0]_vars

\* C8: a createMastraStream call that finds no handle cached fails with the
\* not-initialized error without reading its messages and without invoking the agent,
\* whatever the messages are, and changes nothing in the cache.
C8_NotInitialized ==
    [][(spc = "idle" /\ spc' # "idle" /\ teachingAssistantAgent = NoAgent)
       => /\ spc' = "failed"
          /\ sres' = "notInitialized"
          /\ ~msgRead'
          /\ genCount' = genCount
          /\ streamCount' = streamCount
          /\ cacheVars' = cacheVars]_vars

C8_Witness ==
    /\ spc = "failed" /\ sres = "notInitialized" /\ messages = <<>>
    /\ \E p \in Procs : InFlight(p) /\ atStart[p].agent # NoAgent

Sentinels(items) == {i \in 1..Len(items) : items[i] = DoneItem}

\* C9: the stream takes the sentinel at most once, as its last item and together with the
\* close request, after which no timer is pending; a stream that was read to its end
\* without a cancel has delivered everything enqueued, the sentinel once and last.
C9_SentinelLast ==
    /\ Cardinality(Sentinels(em.enqueued)) <= 1
    /\ Sentinels(em.enqueued) # {}
       => /\ em.enqueued[Len(em.enqueued)] = DoneItem
          /\ em.closeRequested
          /\ ~em.timer
          /\ em.chunkIndex = Len(em.chunks)
    /\ (em.state = "closed" /\ ~em.cancelled)
       => /\ em.delivered = em.enqueued
          /\ Sentinels(em.delivered) = {Len(em.delivered)}
          /\ Len(em.delivered) = Len(em.chunks) + 1

C9_Witness ==
    /\ em.state = "closed" /\ ~em.cancelled
    /\ Len(em.delivered) = 5 /\ em.delivered[5] = DoneItem

\* C10: after the consumer cancelled the stream the emitter sets no further timer and
\* attempts no further enqueue or close on the stream.
C10_CancelStopsEmitter ==
    em.cancelled => (em.late = 0 /\ em.lateTimers = 0)

\* the content of a chunk
Content(chunk) == chunk.choices[1].delta.content
\* the chunk is the tool summary: its content opens with the heading of line 306
IsToolSummary(chunk) ==
    Content(chunk) # <<>> /\ Content(chunk)[1] = "\n\n**Learning Tools Used:**\n"
ToolSummaries(chunks) == {i \in 1..Len(chunks) : IsToolSummary(chunks[i])}
\* the chunks ahead of the tool summary and of the last chunk
TextChunkCount(chunks) == Len(chunks) - 1 - Cardinality(ToolSummaries(chunks))
\* the length of the text of a response, 0 when it has none
TextLength(resp) == IF resp.text.t = "string" THEN Len(resp.text.v) ELSE 0

\* C11: a response whose text has length L gives ceil(L / 50) text chunks, none when the
\* text is empty or absent; every text chunk but the last has 50 characters and the last
\* has L mod 50, or 50 when L is a positive multiple of 50.
C11_TextChunking ==
    em.state # "none"
    => LET L == TextLength(response)
           n == TextChunkCount(em.chunks)
       IN /\ n = (L + ChunkSize - 1) \div ChunkSize
          /\ \A i \in 1..n :
                Len(Content(em.chunks[i])) =
                    IF i < n \/ L % ChunkSize = 0 THEN ChunkSize ELSE L % ChunkSize

C11_Witness ==
    /\ em.state # "none" /\ TextLength(response) = 100
    /\ TextChunkCount(em.chunks) = 2 /\ Len(Content(em.chunks[2])) = 50

\* the result of a tool call is there: neither undefined nor null
Present(x) == x.t \notin {"undefined", "null"}
\* some tool call of the response has a name and a result
HasNamedResult(resp) ==
    /\ resp.hasSteps
    /\ \E i \in 1..Len(resp.steps) :
          /\ resp.steps[i].hasToolCalls
          /\ \E j \in 1..Len(resp.steps[i].toolCalls) :
                /\ Truthy(resp.steps[i].toolCalls[j].name)
                /\ Present(resp.steps[i].toolCalls[j].result)

\* C12: the stream has exactly one tool-summary chunk when some tool call has a name and a
\* result that is not absent, whatever the value of the result (false, 0 and the empty
\* string included), and no tool-summary chunk otherwise.
C12_ToolSummaryForEveryResult ==
    em.state # "none"
    => Cardinality(ToolSummaries(em.chunks)) = (IF HasNamedResult(response) THEN 1 ELSE 0)

\* C13: when the generate call of createMastraStream is rejected the call fails with that
\* error, builds and returns no stream, so that no chunk and no sentinel is emitted for it,
\* and the cached handle and the recorded credential stay as they were.
C13_GenerateFailure ==
    [][/\ (spc = "awaitGenerate" /\ spc' = "failed")
          => /\ sres' = "upstream"
             /\ streamCount' = streamCount
             /\ em' = em
             /\ response' = response
             /\ teachingAssistantAgent' = teachingAssistantAgent
             /\ currentApiKey' = currentApiKey
       /\ (spc = "failed" /\ sres = "upstream")
          => (streamCount' = streamCount /\ em' = em)]_vars

C13_Witness ==
    /\ spc = "failed" /\ sres = "upstream" /\ genCount = 1
    /\ streamCount = 0 /\ em = NoStream
    /\ teachingAssistantAgent # NoAgent /\ genAgent = teachingAssistantAgent
    /\ currentApiKey = genKey

\* C14: over every interleaving of initializeTeachingAssistant calls, credential changes,
\* failed builds and rejected getTools calls included, at most one MCPClient is
\* constructed, and every build asks that one client for its tools.
C14_OneToolClient ==
    /\ ctr.mcp <= 1
    /\ mcpClient = ctr.mcp
    /\ \A p \in Procs : pc[p] = "awaitTools" => mcpClient = 1
    /\ ctr.tools > 0 => mcpClient = 1

C14_Witness ==
    /\ ctr.mcp = 1 /\ mcpClient = 1 /\ ctr.tools = 2 /\ ctr.agent = 2
    /\ currentApiKey = "B" /\ \E p \in Procs : toolsRejected[p]

\* C15: over all initializeTeachingAssistant calls of the process, credential changes
\* included, at most one Memory store is constructed.
C15_OneMemoryStore == ctr.memory <= 1

\* the credential is a string that starts with sk-
WellFormedKey(x) ==
    x.t = "string" /\ Len(x.v) >= 3 /\ x.v[1] = "s" /\ x.v[2] = "k" /\ x.v[3] = "-"
ValBegins(v) == valPc[v] = "idle" /\ valPc'[v] # "idle"

\* C16: validateApiKey called with a credential that is absent, not a string or does not
\* start with sk- returns a failure at once and sends no request; a request is sent only
\* by a call whose credential passed the format check, with that credential as bearer.
C16_FormatCheckFirst ==
    [][\A v \in ValProcs :
          /\ (ValBegins(v) /\ ~WellFormedKey(valApiKey'[v]))
             => /\ valPc'[v] = "done"
                /\ valResult'[v] = [success |-> FALSE,
                                    error |-> "Invalid OpenAI API key format."]
                /\ fetched' = fetched
          /\ fetched'[v] # fetched[v]
             => /\ ValBegins(v)
                /\ WellFormedKey(valApiKey'[v])
                /\ fetched'[v] = Append(fetched[v], valApiKey'[v].v)]_vars

C16_Witness ==
    \E u, v \in ValProcs :
        /\ valPc[u] = "done" /\ valApiKey[u] = Str(<<"p", "k", "-", "1">>)
        /\ ~valResult[u].success /\ fetched[u] = <<>>
        /\ valPc[v] = "done" /\ valResult[v].success /\ Len(fetched[v]) = 1

\* C17: every streamChat call of a session created with credential c that gets as far as
\* agent.generate runs it on an agent built with c, with c as the recorded credential,
\* also when an agent built with another credential was cached and with overlapping
\* sessions.
C17_ServedWithSessionKey ==
    \A s \in Procs :
        chat[s].pc = "awaitGenerate"
        => /\ chat[s].genKey = chat[s].apiKey
           /\ chat[s].genAgent.key = chat[s].apiKey

\* the characters of a sequence of strings, in order
RECURSIVE Concat(_)
Concat(strs) == IF strs = <<>> THEN <<>> ELSE Head(strs) \o Concat(Tail(strs))
\* the text of the response, empty when it has none
TextOf(resp) == IF resp.text.t = "string" THEN resp.text.v ELSE <<>>
\* a delivered item that carries a fragment of the text
IsTextItem(item) ==
    item.data = "json" /\ Content(item.json) # <<>> /\ ~IsToolSummary(item.json)
\* the contents of the first k delivered items
FirstContents(items, k) == [i \in 1..k |-> Content(items[i].json)]

\* C18: the consumer gets the items in order and each once: the fragments of the text in
\* the order of the text, none skipped, repeated or out of place, then the tool summary
\* if there is one, then exactly one chunk with empty content, which is the only chunk
\* with empty content, then the sentinel.
C18_OrderedDelivery ==
    LET d == em.delivered
        n == Len(d)
        j == Cardinality({i \in 1..n : IsTextItem(d[i])})
    IN /\ \A i \in 1..j : IsTextItem(d[i])
       /\ Concat(FirstContents(d, j))
             = SubSeq(TextOf(response), 1, Len(Concat(FirstContents(d, j))))
       /\ (em.state = "closed" /\ ~em.cancelled)
          => /\ n >= 2
             /\ d[n].data = "[DONE]"
             /\ \A i \in 1..(n - 1) : d[i].data = "json"
             /\ Content(d[n - 1].json) = <<>>
             /\ \A i \in 1..(n - 2) : Content(d[i].json) # <<>>
             /\ \A i \in (j + 1)..(n - 2) : i = n - 2 /\ IsToolSummary(d[i].json)
             /\ Concat(FirstContents(d, j)) = TextOf(response)

C18_Witness ==
    /\ em.state = "closed" /\ ~em.cancelled
    /\ TextLength(response) = 101 /\ Len(em.delivered) = 6
    /\ IsToolSummary(em.delivered[4].json)

\* C19: in every reachable state, whatever the interleaving of the calls, a cached agent is
\* a complete agent built with the credential currentApiKey records, and every
\* initializeTeachingAssistant(c) that has returned has returned an agent built with c.
C19_CacheMatchesKey ==
    /\ teachingAssistantAgent # NoAgent
       => /\ currentApiKey = teachingAssistantAgent.key
          /\ teachingAssistantAgent.id > 0
          /\ teachingAssistantAgent.memory > 0
    /\ \A p \in Procs :
          pc[p] = "done" => (ret[p] # NoAgent /\ ret[p].id > 0 /\ ret[p].key = apiKey[p])

C19_Witness ==
    \E p, q \in Procs :
        /\ pc[p] = "done" /\ pc[q] = "done" /\ ~solo[p] /\ ~solo[q]
        /\ apiKey[p] = "A" /\ apiKey[q] = "B" /\ ctr.agent = 2
        /\ teachingAssistantAgent = ret[q]

\* the emitter has enqueued every chunk and the sentinel, asked for the close and left no
\* timer behind
AllSent ==
    /\ Len(em.enqueued) = Len(em.chunks) + 1
    /\ \A i \in 1..Len(em.chunks) : em.enqueued[i] = WireChunk(em.chunks[i])
    /\ em.enqueued[Len(em.enqueued)] = DoneItem
    /\ em.closeRequested
    /\ ~em.timer
\* the consumer has got everything and the stream is closed
AllDelivered == em.state = "closed" /\ em.delivered = em.enqueued

\* C20: when timers keep firing and the consumer keeps reading and does not cancel, the
\* emitter of a stream of N chunks eventually has delivered the N chunks and the sentinel
\* and closed the stream, and from then on no timer is scheduled.
C20_EmitterTerminates == <>[](em.cancelled \/ (AllSent /\ AllDelivered))

C20_Witness ==
    /\ ~em.cancelled /\ AllSent /\ AllDelivered
    /\ Len(em.chunks) = 5 /\ em.timersSet = 5 /\ em.uncaught = 0
====
